---- MODULE Spec2Model ----
(***************************************************************************)
(* Ingestion pipeline of the Studio testnet indexer: IndexerService        *)
(* (start / stop / handleNewBlock / processHistoricalBlocks /              *)
(* processBlock), the parts of BlockchainService and DatabaseService it    *)
(* calls, and the chain node as environment; further the DatabaseService   *)
(* methods as their other callers see them, and detectAndStoreInterfaces   *)
(* of the contract verifier.                                               *)
(*                                                                         *)
(* JavaScript runs one continuation at a time, so a step of the model is   *)
(* the resolution of one await together with the synchronous code that     *)
(* follows it up to the next await.  The effect of an awaited store or     *)
(* chain call is taken at its resolution.                                  *)
(***************************************************************************)
EXTENDS Integers, FiniteSets, Sequences, TLC

\* ---- bounds of the model ------------------------------------------------
MaxHead == 2        \* the chain grows up to this block number
MaxLoops == 1       \* start() calls that may be in flight at once
MaxLive == 1        \* handleNewBlock calls that may be in flight at once
MaxOverlap == 1     \* further start() calls when calls may overlap or repeat
MaxFailures == 1    \* injected transport / store failures
MaxRestarts == 1    \* process restarts (store survives, memory does not)
MaxVerify == 1      \* POST /verify requests that may be in flight at once

VARIABLES
    isIndexing,          \* IndexerService.isIndexing
    lastProcessedBlock,  \* IndexerService.lastProcessedBlock
    blocks,              \* rows of table blocks
    txs,                 \* rows of table transactions
    listeners,           \* 'block' listeners registered on the provider
    tasks,               \* async calls in flight: start() and handleNewBlock()
    head,                \* chain: highest block number of the node
    chain,               \* chain: number of transactions of each block
    receipts,            \* chain: transactions whose receipt the node has
    lastNotified,        \* chain: last block number announced to listeners
    failures,            \* failures injected so far
    restarts,            \* restarts so far
    outcome,             \* result of the last start() / stop() call
    interfaces,          \* rows of table contract_interfaces
    abi,                 \* ABI handed to detectAndStoreInterfaces
    call,                \* last DatabaseService call of a client and its result
    verifications,       \* rows of table contract_verifications
    sources,             \* rows of table contract_sources
    requests             \* POST /verify requests and their verifyContract calls

vars == <<isIndexing, lastProcessedBlock, blocks, txs, listeners, tasks, head,
          chain, receipts, lastNotified, failures, restarts, outcome,
          interfaces, abi, call, verifications, sources, requests>>

\* state the ingestion pipeline neither reads nor writes
verifyVars == <<verifications, sources, requests>>
apiVars == <<interfaces, abi, call, verifyVars>>

\* ---- chain (environment) --------------------------------------------------
BlockNumbers == 0..MaxHead

\* shapes of chain the model explores: transactions per block
Chains == { [b \in BlockNumbers |-> b % 2], [b \in BlockNumbers |-> b % 3] }

\* hash of the i-th transaction of block b
TxHash(b, i) == <<b, i>>

TxsOf(b) == { TxHash(b, i) : i \in 1..chain[b] }

\* accounts of the chain; sender and recipient of the i-th transaction of b
Addresses == {"a1", "a2"}
TxFrom(b, i) == IF i = 1 THEN "a1" ELSE "a2"
TxTo(b, i) == IF b % 2 = 1 THEN "a2" ELSE "a1"

\* ---- tasks ------------------------------------------------------------------
LoopIds == 1..MaxLoops
\* every slot a start() call can run in; those past MaxLoops are used only
\* where start() calls may overlap or follow a stop() in the same process
StartIds == 1..(MaxLoops + MaxOverlap)
HandlerIds == (MaxLoops + MaxOverlap + 1)..(MaxLoops + MaxOverlap + MaxLive)
TaskIds == StartIds \cup HandlerIds

IsLoop(t) == t \in StartIds

\* n: block of the pass, i: position in its transaction list.
\* w and skipped are history fields: the watermark when the pass began and
\* whether the pass met an absent receipt.
Idle == [pc |-> "idle", n |-> 0, i |-> 0, w |-> 0, skipped |-> FALSE]

ProcessingPcs == {"getBlock", "insertBlock", "getReceipt", "insertTx"}

InFlight(t) == tasks[t].pc \in ProcessingPcs

\* ---- DatabaseService ------------------------------------------------------
\* variant: INSERT ... ON CONFLICT (number) DO NOTHING
insertBlock_DoNothing(rows, block) ==
    IF \E r \in rows : r.number = block.number THEN rows ELSE rows \cup {block}

\* INSERT ... ON CONFLICT (number) DO UPDATE
insertBlock(rows, block) ==
    { r \in rows : r.number # block.number } \cup {block}

\* INSERT ... ON CONFLICT (hash) DO UPDATE
insertTransaction(rows, transaction) ==
    { r \in rows : r.hash # transaction.hash } \cup {transaction}

\* SELECT * FROM blocks ORDER BY number DESC LIMIT 1; -1 stands for null
getLatestBlock(rows) ==
    IF rows = {} THEN -1
    ELSE CHOOSE m \in { r.number : r \in rows } :
             \A r \in rows : r.number <= m

\* variant: lastBlock?.number || 1
ResumePoint_FromOne(latest) == IF latest = -1 \/ latest = 0 THEN 1 ELSE latest

\* lastBlock?.number || 0
ResumePoint(latest) == IF latest = -1 \/ latest = 0 THEN 0 ELSE latest

\* the rows processBlock builds from a fetched block and a receipt
BlockRow(n) == [number |-> n, transactions_count |-> chain[n]]
TxRow(n, i) == [hash |-> TxHash(n, i), block_number |-> n,
                from_address |-> TxFrom(n, i), to_address |-> TxTo(n, i),
                transaction_index |-> i]

HasBlock(n) == \E r \in blocks : r.number = n
HasTx(h) == \E r \in txs : r.hash = h
FullyIngested(n) == HasBlock(n) /\ \A h \in TxsOf(n) : HasTx(h)

\* ---- verification requests ----------------------------------------------------
VerifyIds == 1..MaxVerify

\* address: req.body.address; left: source files still to store; status and
\* inCatch: the status verifyContract is writing and whether it does so from
\* its catch block; res: the HTTP response sent
IdleRequest == [pc |-> "idle", address |-> "", left |-> 0, status |-> "",
                inCatch |-> FALSE, res |-> "none"]

\* no verification submitted
VerifyIdle ==
    /\ verifications = {}
    /\ sources = {}
    /\ requests = [v \in VerifyIds |-> IdleRequest]

\* no contract classified, no client call made
ApiIdle ==
    /\ interfaces = {}
    /\ abi = {}
    /\ call = [op |-> "none"]
    /\ VerifyIdle

\* ---- initial state ----------------------------------------------------------
Init ==
    /\ isIndexing = FALSE
    /\ lastProcessedBlock = 0
    /\ blocks = {}
    /\ txs = {}
    /\ listeners = 0
    /\ tasks = [t \in TaskIds |-> Idle]
    /\ head = 1
    /\ chain \in Chains
    /\ receipts = {}
    /\ lastNotified = -1
    /\ failures = 0
    /\ restarts = 0
    /\ outcome = "none"
    /\ ApiIdle

\* ---- IndexerService: control flow around a processBlock pass ------------------
\* first suspension of processBlock(n): await getBlockWithTransactions(n)
EnterPass(n) ==
    [pc |-> "getBlock", n |-> n, i |-> 0, w |-> lastProcessedBlock,
     skipped |-> FALSE]

\* processHistoricalBlocks, top of the loop: while (this.isIndexing) { await
\* getLatestBlockNumber() ...; when the flag is off the loop and start() end
LoopTop(running) ==
    IF running THEN [Idle EXCEPT !.pc = "getLatestBlockNumber"] ELSE Idle

\* processBlock returned: the handler ends, the loop goes round
AfterPass(t) == IF IsLoop(t) THEN LoopTop(isIndexing) ELSE Idle

\* processBlock threw: handleNewBlock logs it, the loop sleeps 5 s.  While
\* the loop sleeps and queries the head again, n is a history field: the
\* block of the pass that failed, 0 when only a head query has failed.
AfterThrow(t) ==
    IF IsLoop(t) THEN [Idle EXCEPT !.pc = "sleep", !.n = tasks[t].n] ELSE Idle

\* result of start() when the loop of task t ends in this step
LoopOutcome(t, tk) ==
    IF IsLoop(t) /\ tk.pc = "idle" THEN "start:returned" ELSE outcome

\* variant: the watermark assignment placed in a finally block
Throw_SetsWatermark(t) ==
    /\ tasks' = [tasks EXCEPT ![t] = AfterThrow(t)]
    /\ lastProcessedBlock' = tasks[t].n
    /\ UNCHANGED outcome

Throw(t) ==
    /\ tasks' = [tasks EXCEPT ![t] = AfterThrow(t)]
    /\ UNCHANGED <<lastProcessedBlock, outcome>>

\* this.lastProcessedBlock = blockNumber, then back in the caller
FinishPass(t) ==
    /\ lastProcessedBlock' = tasks[t].n
    /\ tasks' = [tasks EXCEPT ![t] = AfterPass(t)]
    /\ outcome' = LoopOutcome(t, AfterPass(t))

\* end of one iteration of for (const tx of blockWithTxs.transactions)
NextTransaction(t, tk) ==
    IF tk.i < chain[tk.n]
    THEN /\ tasks' = [tasks EXCEPT ![t] =
                          [tk EXCEPT !.pc = "getReceipt", !.i = tk.i + 1]]
         /\ UNCHANGED <<lastProcessedBlock, outcome>>
    ELSE FinishPass(t)

CanFail == failures < MaxFailures

\* ---- IndexerService.processBlock ------------------------------------------
\* getBlockWithTransactions resolves with the block
GetBlockOk(t) ==
    /\ tasks[t].pc = "getBlock"
    /\ tasks[t].n <= head
    /\ tasks' = [tasks EXCEPT ![t].pc = "insertBlock"]
    /\ UNCHANGED <<isIndexing, lastProcessedBlock, blocks, txs, listeners, head,
                   chain, receipts, lastNotified, failures, restarts, outcome>>
    /\ UNCHANGED apiVars

\* variant: a null block is taken for a block without transactions
GetBlockFail_NullIsEmpty(t) ==
    /\ tasks[t].pc = "getBlock"
    /\ tasks[t].n <= head => CanFail
    /\ failures' = IF tasks[t].n <= head THEN failures + 1 ELSE failures
    /\ IF tasks[t].n <= head THEN Throw(t) ELSE FinishPass(t)
    /\ UNCHANGED <<isIndexing, blocks, txs, listeners, head, chain, receipts,
                   lastNotified, restarts>>
    /\ UNCHANGED apiVars

\* getBlockWithTransactions rejects (transport), or resolves with null for a
\* block the node does not have and blockWithTxs.hash throws
GetBlockFail(t) ==
    /\ tasks[t].pc = "getBlock"
    /\ tasks[t].n <= head => CanFail
    /\ failures' = IF tasks[t].n <= head THEN failures + 1 ELSE failures
    /\ Throw(t)
    /\ UNCHANGED <<isIndexing, blocks, txs, listeners, head, chain, receipts,
                   lastNotified, restarts>>
    /\ UNCHANGED apiVars

\* insertBlock resolves; a block without transactions is finished here
InsertBlockOk(t) ==
    /\ tasks[t].pc = "insertBlock"
    /\ blocks' = insertBlock(blocks, BlockRow(tasks[t].n))
    /\ NextTransaction(t, tasks[t])
    /\ UNCHANGED <<isIndexing, txs, listeners, head, chain, receipts,
                   lastNotified, failures, restarts>>
    /\ UNCHANGED apiVars

\* variant: a rejected insertBlock is logged inside the pass, which goes on
InsertBlockFail_GoesOn(t) ==
    /\ tasks[t].pc = "insertBlock"
    /\ CanFail
    /\ failures' = failures + 1
    /\ NextTransaction(t, tasks[t])
    /\ UNCHANGED <<isIndexing, blocks, txs, listeners, head, chain, receipts,
                   lastNotified, restarts>>
    /\ UNCHANGED apiVars

\* insertBlock rejects
InsertBlockFail(t) ==
    /\ tasks[t].pc = "insertBlock"
    /\ CanFail
    /\ failures' = failures + 1
    /\ Throw(t)
    /\ UNCHANGED <<isIndexing, blocks, txs, listeners, head, chain, receipts,
                   lastNotified, restarts>>
    /\ UNCHANGED apiVars

\* getTransactionReceipt resolves with a receipt
GetReceiptOk(t) ==
    /\ tasks[t].pc = "getReceipt"
    /\ TxHash(tasks[t].n, tasks[t].i) \in receipts
    /\ tasks' = [tasks EXCEPT ![t].pc = "insertTx"]
    /\ UNCHANGED <<isIndexing, lastProcessedBlock, blocks, txs, listeners, head,
                   chain, receipts, lastNotified, failures, restarts, outcome>>
    /\ UNCHANGED apiVars

\* variant: if (!receipt) throw new Error('receipt not found')
GetReceiptAbsent_Throws(t) ==
    /\ tasks[t].pc = "getReceipt"
    /\ TxHash(tasks[t].n, tasks[t].i) \notin receipts
    /\ Throw(t)
    /\ UNCHANGED <<isIndexing, blocks, txs, listeners, head, chain, receipts,
                   lastNotified, failures, restarts>>
    /\ UNCHANGED apiVars

\* getTransactionReceipt resolves with null: if (!receipt) continue;
GetReceiptAbsent(t) ==
    /\ tasks[t].pc = "getReceipt"
    /\ TxHash(tasks[t].n, tasks[t].i) \notin receipts
    /\ NextTransaction(t, [tasks[t] EXCEPT !.skipped = TRUE])
    /\ UNCHANGED <<isIndexing, blocks, txs, listeners, head, chain, receipts,
                   lastNotified, failures, restarts>>
    /\ UNCHANGED apiVars

GetReceiptFail(t) ==
    /\ tasks[t].pc = "getReceipt"
    /\ CanFail
    /\ failures' = failures + 1
    /\ Throw(t)
    /\ UNCHANGED <<isIndexing, blocks, txs, listeners, head, chain, receipts,
                   lastNotified, restarts>>
    /\ UNCHANGED apiVars

InsertTxOk(t) ==
    /\ tasks[t].pc = "insertTx"
    /\ txs' = insertTransaction(txs, TxRow(tasks[t].n, tasks[t].i))
    /\ NextTransaction(t, tasks[t])
    /\ UNCHANGED <<isIndexing, blocks, listeners, head, chain, receipts,
                   lastNotified, failures, restarts>>
    /\ UNCHANGED apiVars

InsertTxFail(t) ==
    /\ tasks[t].pc = "insertTx"
    /\ CanFail
    /\ failures' = failures + 1
    /\ Throw(t)
    /\ UNCHANGED <<isIndexing, blocks, txs, listeners, head, chain, receipts,
                   lastNotified, restarts>>
    /\ UNCHANGED apiVars

\* ---- BlockchainService: the 'block' listeners ------------------------------
\* provider.on('block', wrapper): one more listener
subscribeToNewBlocks(ls) == ls + 1

\* provider.off('block', this.handleNewBlock.bind(this)): removes the listeners
\* identical to its argument; the argument is a fresh bound function and the
\* registered listener is the wrapper arrow function, so none is removed
unsubscribeFromNewBlocks(ls) == ls

\* ---- IndexerService.start ---------------------------------------------------
\* start() is called; with the flag set it warns and returns.  Every start that
\* gets through adds a listener and every listener needs a handler slot per
\* announcement, so MaxLive caps the starts that get through in one process.
StartCall(t) ==
    /\ IsLoop(t)
    /\ tasks[t].pc = "idle"
    /\ IF isIndexing
       THEN outcome' = "start:already" /\ UNCHANGED tasks
       ELSE /\ tasks' = [tasks EXCEPT ![t].pc = "isConnected"]
            /\ UNCHANGED outcome
    /\ UNCHANGED <<isIndexing, lastProcessedBlock, blocks, txs, listeners, head,
                   chain, receipts, lastNotified, failures, restarts>>
    /\ UNCHANGED apiVars

IsConnectedTrue(t) ==
    /\ tasks[t].pc = "isConnected"
    /\ tasks' = [tasks EXCEPT ![t].pc = "getLatestBlock"]
    /\ UNCHANGED <<isIndexing, lastProcessedBlock, blocks, txs, listeners, head,
                   chain, receipts, lastNotified, failures, restarts, outcome>>
    /\ UNCHANGED apiVars

Start(t) == (isIndexing \/ listeners < MaxLive) /\ StartCall(t)

\* start() where one more listener than MaxLive may come to be registered
StartAgain(t) ==
    (isIndexing \/ listeners < MaxLive + MaxOverlap) /\ StartCall(t)

\* variant: the flag is set before the liveness check and not reset on failure
IsConnectedFalse_FlagSet(t) ==
    /\ tasks[t].pc = "isConnected"
    /\ CanFail
    /\ failures' = failures + 1
    /\ tasks' = [tasks EXCEPT ![t] = Idle]
    /\ outcome' = "start:threw"
    /\ isIndexing' = TRUE
    /\ UNCHANGED <<lastProcessedBlock, blocks, txs, listeners, head,
                   chain, receipts, lastNotified, restarts>>
    /\ UNCHANGED apiVars

\* isConnected() resolves false: start() throws 'Not connected to blockchain'
IsConnectedFalse(t) ==
    /\ tasks[t].pc = "isConnected"
    /\ CanFail
    /\ failures' = failures + 1
    /\ tasks' = [tasks EXCEPT ![t] = Idle]
    /\ outcome' = "start:threw"
    /\ UNCHANGED <<isIndexing, lastProcessedBlock, blocks, txs, listeners, head,
                   chain, receipts, lastNotified, restarts>>
    /\ UNCHANGED apiVars

\* lines 260-271 once getLatestBlock() has resolved with latest (-1: null)
Resume(t, latest) ==
    /\ lastProcessedBlock' = ResumePoint(latest)
    /\ isIndexing' = TRUE
    /\ listeners' = subscribeToNewBlocks(listeners)
    /\ tasks' = [tasks EXCEPT ![t] = LoopTop(TRUE)]
    /\ UNCHANGED <<blocks, txs, head, chain, receipts, lastNotified, restarts,
                   outcome>>
    /\ UNCHANGED apiVars

StartResume(t) ==
    /\ tasks[t].pc = "getLatestBlock"
    /\ Resume(t, getLatestBlock(blocks))
    /\ UNCHANGED failures

\* the query fails: getLatestBlock() catches the error and returns null
StartResumeReadFail(t) ==
    /\ tasks[t].pc = "getLatestBlock"
    /\ CanFail
    /\ failures' = failures + 1
    /\ Resume(t, -1)

\* ---- IndexerService.stop ----------------------------------------------------
Stop ==
    /\ IF isIndexing
       THEN /\ isIndexing' = FALSE
            /\ listeners' = unsubscribeFromNewBlocks(listeners)
            /\ outcome' = "stop:done"
       ELSE /\ outcome' = "stop:noop"
            /\ UNCHANGED <<isIndexing, listeners>>
    /\ UNCHANGED <<lastProcessedBlock, blocks, txs, tasks, head, chain, receipts,
                   lastNotified, failures, restarts>>
    /\ UNCHANGED apiVars

\* ---- IndexerService.processHistoricalBlocks ---------------------------------
\* variant: if (nextBlock >= latestBlock) break
GetHeadOk_BreakAtHead(t) ==
    /\ tasks[t].pc = "getLatestBlockNumber"
    /\ IF lastProcessedBlock + 1 >= head
       THEN /\ tasks' = [tasks EXCEPT ![t] = Idle]
            /\ outcome' = "start:returned"
       ELSE /\ tasks' = [tasks EXCEPT ![t] = EnterPass(lastProcessedBlock + 1)]
            /\ UNCHANGED outcome
    /\ UNCHANGED <<isIndexing, lastProcessedBlock, blocks, txs, listeners, head,
                   chain, receipts, lastNotified, failures, restarts>>
    /\ UNCHANGED apiVars

\* variant: no break; a caught-up loop waits and asks for the head again
GetHeadOk_NoBreak(t) ==
    /\ tasks[t].pc = "getLatestBlockNumber"
    /\ tasks' = [tasks EXCEPT ![t] =
                     IF lastProcessedBlock + 1 > head
                     THEN [Idle EXCEPT !.pc = "sleep"]
                     ELSE EnterPass(lastProcessedBlock + 1)]
    /\ UNCHANGED <<isIndexing, lastProcessedBlock, blocks, txs, listeners, head,
                   chain, receipts, lastNotified, failures, restarts, outcome>>
    /\ UNCHANGED apiVars

\* getLatestBlockNumber() resolves: break when caught up, else processBlock
GetHeadOk(t) ==
    /\ tasks[t].pc = "getLatestBlockNumber"
    /\ IF lastProcessedBlock + 1 > head
       THEN /\ tasks' = [tasks EXCEPT ![t] = Idle]
            /\ outcome' = "start:returned"
       ELSE /\ tasks' = [tasks EXCEPT ![t] = EnterPass(lastProcessedBlock + 1)]
            /\ UNCHANGED outcome
    /\ UNCHANGED <<isIndexing, lastProcessedBlock, blocks, txs, listeners, head,
                   chain, receipts, lastNotified, failures, restarts>>
    /\ UNCHANGED apiVars

GetHeadFail(t) ==
    /\ tasks[t].pc = "getLatestBlockNumber"
    /\ CanFail
    /\ failures' = failures + 1
    /\ Throw(t)
    /\ UNCHANGED <<isIndexing, blocks, txs, listeners, head, chain, receipts,
                   lastNotified, restarts>>
    /\ UNCHANGED apiVars

\* the 5 s timer fires and the loop tests the flag again
SleepDone(t) ==
    /\ tasks[t].pc = "sleep"
    /\ tasks' = [tasks EXCEPT ![t] =
                     IF isIndexing THEN [LoopTop(TRUE) EXCEPT !.n = tasks[t].n]
                     ELSE Idle]
    /\ outcome' = LoopOutcome(t, LoopTop(isIndexing))
    /\ UNCHANGED <<isIndexing, lastProcessedBlock, blocks, txs, listeners, head,
                   chain, receipts, lastNotified, failures, restarts>>
    /\ UNCHANGED apiVars

\* ---- IndexerService.handleNewBlock -------------------------------------------
\* the k lowest members of S
LowestK(S, k) == { t \in S : Cardinality({ u \in S : u < t }) < k }

FreeHandlers == { t \in HandlerIds : tasks[t].pc = "idle" }

\* the provider announces block b: every registered listener calls
\* handleNewBlock(b), which returns at once when the flag is off and otherwise
\* enters processBlock(b)
Notify(b) ==
    /\ lastNotified < b
    /\ b <= head
    /\ lastNotified' = b
    /\ IF isIndexing
       THEN /\ Cardinality(FreeHandlers) >= listeners
            /\ tasks' = [t \in TaskIds |->
                            IF t \in LowestK(FreeHandlers, listeners)
                            THEN EnterPass(b) ELSE tasks[t]]
       ELSE UNCHANGED tasks
    /\ UNCHANGED <<isIndexing, lastProcessedBlock, blocks, txs, listeners, head,
                   chain, receipts, failures, restarts, outcome>>
    /\ UNCHANGED apiVars

\* ---- environment ------------------------------------------------------------
\* the node sees a new block
Mine ==
    /\ head < MaxHead
    /\ head' = head + 1
    /\ UNCHANGED <<isIndexing, lastProcessedBlock, blocks, txs, listeners, tasks,
                   chain, receipts, lastNotified, failures, restarts, outcome>>
    /\ UNCHANGED apiVars

\* the node has indexed the receipt of a transaction
IndexReceipt(b, i) ==
    /\ b <= head
    /\ i \in 1..chain[b]
    /\ TxHash(b, i) \notin receipts
    /\ receipts' = receipts \cup {TxHash(b, i)}
    /\ UNCHANGED <<isIndexing, lastProcessedBlock, blocks, txs, listeners, tasks,
                   head, chain, lastNotified, failures, restarts, outcome>>
    /\ UNCHANGED apiVars

\* the process ends and main() runs again: new IndexerService and provider,
\* same database
Restart ==
    /\ restarts < MaxRestarts
    /\ restarts' = restarts + 1
    /\ isIndexing' = FALSE
    /\ lastProcessedBlock' = 0
    /\ listeners' = 0
    /\ tasks' = [t \in TaskIds |-> Idle]
    /\ lastNotified' = -1
    /\ outcome' = "none"
    /\ UNCHANGED <<blocks, txs, head, chain, receipts, failures>>
    /\ UNCHANGED apiVars

ProcessBlockStep(t) ==
    \/ GetBlockOk(t) \/ GetBlockFail(t)
    \/ InsertBlockOk(t) \/ InsertBlockFail(t)
    \/ GetReceiptOk(t) \/ GetReceiptAbsent(t) \/ GetReceiptFail(t)
    \/ InsertTxOk(t) \/ InsertTxFail(t)

StartStep(t) ==
    \/ Start(t) \/ IsConnectedTrue(t) \/ IsConnectedFalse(t)
    \/ StartResume(t) \/ StartResumeReadFail(t)
    \/ GetHeadOk(t) \/ GetHeadFail(t) \/ SleepDone(t)

Next ==
    \/ \E t \in TaskIds : ProcessBlockStep(t)
    \/ \E t \in LoopIds : StartStep(t)
    \/ Stop
    \/ \E b \in BlockNumbers : Notify(b)
    \/ Mine
    \/ \E b \in BlockNumbers : \E i \in 1..2 : IndexReceipt(b, i)
    \/ Restart

Spec == Init /\ [][Next]_vars

\* ---- a started pipeline in front of a chain whose head stays at MaxHead -----
StableInit ==
    /\ isIndexing = FALSE
    /\ lastProcessedBlock = 0
    /\ blocks = {}
    /\ txs = {}
    /\ listeners = 0
    /\ tasks = [t \in TaskIds |-> Idle]
    /\ head = MaxHead
    /\ chain \in Chains
    /\ receipts = {}
    /\ lastNotified = -1
    /\ failures = 0
    /\ restarts = 0
    /\ outcome = "none"
    /\ ApiIdle

StableNext ==
    \/ \E t \in TaskIds : ProcessBlockStep(t)
    \/ \E t \in LoopIds : StartStep(t)
    \/ \E b \in BlockNumbers : Notify(b)
    \/ \E b \in BlockNumbers : \E i \in 1..2 : IndexReceipt(b, i)

StableSpec == StableInit /\ [][StableNext]_vars

\* ---- properties ---------------------------------------------------------------
\* a step taken by task t (one task moves per step, except at a restart)
StepOf(t) == tasks'[t] # tasks[t] /\ restarts' = restarts

\* the pass of task t has met, or is meeting, an absent receipt
MetAbsentReceipt(t) ==
    \/ tasks[t].skipped
    \/ /\ tasks[t].pc = "getReceipt"
       /\ TxHash(tasks[t].n, tasks[t].i) \notin receipts

\* no processBlock pass is in flight
Quiet == \A t \in TaskIds : ~InFlight(t)

\* largest h with every block 1..h fully ingested, 0 when block 1 is not.
\* Block 0 is granted: the code starts from watermark 0 (C10), so this height is
\* never below the contiguous-from-zero height of the claim.
IngestedHeight ==
    CHOOSE h \in BlockNumbers :
        /\ \A k \in 1..h : FullyIngested(k)
        /\ h = MaxHead \/ ~FullyIngested(h + 1)

\* C1: a watermark n names a block whose Block row and Transaction rows are all
\* in the store.  Stated for n >= 1: 0 is also the value the code holds before
\* anything is ingested (C10).
C1_WatermarkFullyIngested ==
    lastProcessedBlock >= 1 => FullyIngested(lastProcessedBlock)

\* C2: a processBlock(n) pass that met an absent receipt does not advance the
\* watermark.
C2_AbsentReceiptDefers ==
    [][\A t \in TaskIds :
          (InFlight(t) /\ MetAbsentReceipt(t) /\ StepOf(t))
              => lastProcessedBlock' = lastProcessedBlock]_vars

\* C3: when a live notification for b arrives at watermark w with b > w + 1, the
\* watermark does not become b before every block of w+1..b is persisted.
C3_GapClosed ==
    [][\A t \in HandlerIds :
          (/\ InFlight(t)
           /\ tasks[t].n > tasks[t].w + 1
           /\ StepOf(t)
           /\ lastProcessedBlock' = tasks[t].n)
              => \A k \in (tasks[t].w + 1)..tasks[t].n :
                     \E r \in blocks' : r.number = k]_vars

\* C4: a pass started by a live notification for a block b <= watermark (b >= 1,
\* see C1) leaves the watermark as it is (the part of the claim that a state can
\* show: a row written again with the same data is the same row).
C4_StaleKeepsWatermark ==
    [][\A t \in HandlerIds :
          (/\ InFlight(t)
           /\ tasks[t].n >= 1
           /\ tasks[t].n <= tasks[t].w
           /\ StepOf(t))
              => lastProcessedBlock' = lastProcessedBlock]_vars

\* C5: at most one processBlock pass is in flight.
C5_SinglePass == Cardinality({ t \in TaskIds : InFlight(t) }) <= 1

\* C6: the number of the store's latest block never exceeds the height up to
\* which every block is fully ingested.  Stated between passes and with block 0
\* granted, which the claim implies.
C6_LatestWithinContiguous == Quiet => getLatestBlock(blocks) <= IngestedHeight

\* the pipeline is started, its backfill loop has ended, every announcement has
\* been delivered and handled: nothing will run any more
Settled ==
    /\ isIndexing
    /\ \A t \in TaskIds : tasks[t].pc = "idle"
    /\ lastNotified = head

\* C7: with a stable head H the started pipeline ends with the watermark at H
\* and every block after the resume point (0 on the empty store) persisted.
C7_CatchUp ==
    Settled => /\ lastProcessedBlock = head
               /\ \A b \in 1..head : HasBlock(b)

\* C8: after the read made by start(), the watermark only changes by +1.
C8_StepByOne ==
    [][(/\ lastProcessedBlock' # lastProcessedBlock
        /\ listeners' = listeners
        /\ restarts' = restarts)
           => lastProcessedBlock' = lastProcessedBlock + 1]_vars

\* C9: the watermark start() reads from the store is below every block whose
\* transactions are not all written.
C9_ResumeBelowPartial ==
    [][(listeners' = listeners + 1 /\ lastProcessedBlock' >= 1)
           => /\ \E r \in blocks' : r.number = lastProcessedBlock'
              /\ \A h \in TxsOf(lastProcessedBlock') :
                     \E r \in txs' : r.hash = h]_vars

\* C10: started on an empty store, the watermark is -1 and the backfill loop
\* processes block 0 first.
C10_EmptyStoreMinusOne ==
    (isIndexing /\ blocks = {})
        => /\ lastProcessedBlock = -1
           /\ \A t \in LoopIds : InFlight(t) => tasks[t].n = 0

\* ---- backfill in front of a node that answers every call ------------------
\* chains of the backfill scenarios: no or one transaction in each block
BackfillChains == [BlockNumbers -> 0..1]

\* empty store, any head, every receipt there, no failure left to inject
BackfillInit ==
    /\ isIndexing = FALSE
    /\ lastProcessedBlock = 0
    /\ blocks = {}
    /\ txs = {}
    /\ listeners = 0
    /\ tasks = [t \in TaskIds |-> Idle]
    /\ head \in BlockNumbers
    /\ chain \in BackfillChains
    /\ receipts = UNION { { TxHash(b, i) : i \in 1..chain[b] } : b \in BlockNumbers }
    /\ lastNotified = -1
    /\ failures = MaxFailures
    /\ restarts = 0
    /\ outcome = "none"
    /\ ApiIdle

\* one call of start(), made on task 1
BackfillNext ==
    \/ \E t \in TaskIds : GetBlockOk(t)
    \/ \E t \in TaskIds : InsertBlockOk(t)
    \/ \E t \in TaskIds : GetReceiptOk(t)
    \/ \E t \in TaskIds : InsertTxOk(t)
    \/ Start(1) /\ outcome = "none"
    \/ \E t \in LoopIds : IsConnectedTrue(t)
    \/ \E t \in LoopIds : StartResume(t)
    \/ \E t \in LoopIds : GetHeadOk(t)
    \/ \E b \in BlockNumbers : Notify(b)

BackfillSpec == BackfillInit /\ [][BackfillNext]_vars

\* SELECT COUNT(*) FROM transactions
getTotalTransactions(rows) == Cardinality(rows)

\* start() has returned because backfill caught up, and the node announced no
\* block meanwhile
BackfillDone ==
    /\ outcome = "start:returned"
    /\ isIndexing
    /\ lastNotified = -1

\* the scenario of C11: head 2, blocks 0, 1, 2 with 0, 1, 0 transactions
Scenario010 == head = 2 /\ chain[0] = 0 /\ chain[1] = 1 /\ chain[2] = 0

NotStopped == isIndexing \/ \E t \in LoopIds : tasks[t].pc # "idle"

\* C12: start() called on a pipeline that is not Stopped ends with an error and
\* changes neither the running flag, the watermark nor the listeners.
C12_AlreadyRunningFails ==
    [][(NotStopped /\ \E t \in LoopIds : Start(t))
           => /\ outcome' = "start:threw"
              /\ UNCHANGED <<isIndexing, lastProcessedBlock, listeners>>]_vars

\* the start() call of task t ends on the failed liveness check
LivenessCheckFails(t) ==
    /\ tasks[t].pc = "isConnected"
    /\ tasks'[t].pc = "idle"
    /\ restarts' = restarts

\* C13: when isConnected() resolves false, start() ends with an error and leaves
\* the pipeline as it was: flag, listeners, watermark and store unchanged, no
\* pass begun.
C13_UnreachableStaysStopped ==
    [][\A t \in LoopIds :
          LivenessCheckFails(t)
              => /\ outcome' = "start:threw"
                 /\ UNCHANGED <<isIndexing, listeners, lastProcessedBlock,
                                blocks, txs>>
                 /\ \A u \in TaskIds : u # t => tasks'[u] = tasks[u]]_vars

C13_Witness ==
    /\ outcome = "start:threw"
    /\ ~isIndexing
    /\ listeners = 0
    /\ \A t \in TaskIds : tasks[t].pc = "idle"

\* ---- announcements during backfill, head fixed at MaxHead --------------------
\* a backfill loop is running
Backfilling == isIndexing /\ \E t \in LoopIds : tasks[t].pc # "idle"

\* the provider announces block b while the pipeline is backfilling
NotifyBackfilling(b) == Backfilling /\ Notify(b)

AnnounceNext ==
    \/ \E t \in TaskIds : ProcessBlockStep(t)
    \/ \E t \in LoopIds : StartStep(t)
    \/ \E b \in BlockNumbers : NotifyBackfilling(b)
    \/ \E b \in BlockNumbers : \E i \in 1..2 : IndexReceipt(b, i)

AnnounceSpec == StableInit /\ [][AnnounceNext]_vars

\* backfill has ended and every pass has ended: with announcements made only
\* during backfill, no pass begins any more
AllDone == isIndexing /\ \A t \in TaskIds : tasks[t].pc = "idle"

\* C14: a block announced while the pipeline is backfilling (here the last one
\* announced) is fully ingested once backfill and every pass have ended.
C14_AnnouncedIngested ==
    (AllDone /\ lastNotified >= 0) => FullyIngested(lastNotified)

\* C15: stop() on a running pipeline leaves it Stopped with no handler of the
\* pipeline still registered with the chain client.
StopsRunning == isIndexing /\ ~isIndexing' /\ restarts' = restarts

C15_StopUnregisters ==
    [][StopsRunning => listeners' = 0]_vars

\* C16: once stop() has returned, no new processBlock pass begins, neither in
\* the backfill loop nor in a live handler.
BeginsPass(t) == ~InFlight(t) /\ tasks'[t].pc \in ProcessingPcs

C16_NoNewPassAfterStop ==
    [][\A t \in TaskIds : (~isIndexing /\ restarts' = restarts) => ~BeginsPass(t)]_vars


\* ---- DatabaseService as called by its clients --------------------------------
\* A call is one step: the query resolves (ok) or rejects (~ok), and the
\* method's try / catch turns that into a return value or a throw.
pipelineVars == <<isIndexing, lastProcessedBlock, listeners, tasks, head, chain,
                  receipts, lastNotified, failures, restarts, outcome>>

\* result.rows[0] || null, as a set of at most one row
getBlock(rows, n) == { r \in rows : r.number = n }

InsertBlockCall(block, ok) ==
    /\ blocks' = IF ok THEN insertBlock(blocks, block) ELSE blocks
    /\ call' = [op |-> "insertBlock", row |-> block, ok |-> ok, threw |-> ~ok]
    /\ UNCHANGED <<txs, interfaces, abi, verifyVars, pipelineVars>>

InsertTransactionCall(transaction, ok) ==
    /\ txs' = IF ok THEN insertTransaction(txs, transaction) ELSE txs
    /\ call' = [op |-> "insertTransaction", row |-> transaction, ok |-> ok,
                threw |-> ~ok]
    /\ UNCHANGED <<blocks, interfaces, abi, verifyVars, pipelineVars>>

\* ---- upserts with arbitrary data ----------------------------------------------
BlockValues == [number : BlockNumbers, transactions_count : 0..1]

TxValues ==
    { [hash |-> TxHash(b, 1), block_number |-> b, from_address |-> f,
       to_address |-> "a2", transaction_index |-> 1] :
          b \in 1..MaxHead, f \in Addresses }

\* a store that already holds block 1 and its transaction
UpsertInit ==
    /\ isIndexing = FALSE
    /\ lastProcessedBlock = 0
    /\ blocks = { [number |-> 1, transactions_count |-> 1] }
    /\ txs = { [hash |-> TxHash(1, 1), block_number |-> 1, from_address |-> "a1",
                to_address |-> "a2", transaction_index |-> 1] }
    /\ listeners = 0
    /\ tasks = [t \in TaskIds |-> Idle]
    /\ head = 1
    /\ chain \in Chains
    /\ receipts = {}
    /\ lastNotified = -1
    /\ failures = 0
    /\ restarts = 0
    /\ outcome = "none"
    /\ ApiIdle

UpsertNext ==
    \/ \E block \in BlockValues : \E ok \in BOOLEAN : InsertBlockCall(block, ok)
    \/ \E transaction \in TxValues : \E ok \in BOOLEAN :
           InsertTransactionCall(transaction, ok)

UpsertSpec == UpsertInit /\ [][UpsertNext]_vars

\* C17: the store holds one Block row per number and one Transaction row per
\* hash; after an upsert the row of that key is the one just written, and
\* applying the same upsert again leaves the store as it is.
C17_IdempotentUpsert ==
    /\ \A n \in BlockNumbers : Cardinality(getBlock(blocks, n)) <= 1
    /\ \A r, q \in txs : r.hash = q.hash => r = q
    /\ (call.op = "insertBlock" /\ ~call.threw) =>
           /\ getBlock(blocks, call.row.number) = {call.row}
           /\ insertBlock(blocks, call.row) = blocks
    /\ (call.op = "insertTransaction" /\ ~call.threw) =>
           /\ { r \in txs : r.hash = call.row.hash } = {call.row}
           /\ insertTransaction(txs, call.row) = txs

\* the row block 1 had at the start has been overwritten with other data
C17_Witness ==
    /\ call.op = "insertBlock"
    /\ ~call.threw
    /\ call.row = [number |-> 1, transactions_count |-> 0]
    /\ Cardinality(blocks) > 1


\* ---- contract-verifier: detectAndStoreInterfaces -------------------------------
interfaceDetectors ==
    [ERC20 |-> {"balanceOf", "transfer", "approve", "allowance", "transferFrom"},
     ERC721 |-> {"ownerOf", "approve", "transferFrom", "safeTransferFrom"},
     ERC1155 |-> {"balanceOf", "balanceOfBatch", "safeBatchTransferFrom"}]

\* Object.entries(interfaceDetectors) in insertion order
InterfaceTypes == <<"ERC20", "ERC721", "ERC1155">>

\* new Set(abi.filter(item => item.type === 'function').map(item => item.name))
functions(items) == { item.name : item \in { it \in items : it.type = "function" } }

\* variant: requiredFunctions.some(func => functions.has(func))
Satisfies_Some(interfaceType, fns) ==
    \E func \in interfaceDetectors[interfaceType] : func \in fns

\* requiredFunctions.every(func => functions.has(func))
Satisfies(interfaceType, fns) ==
    \A func \in interfaceDetectors[interfaceType] : func \in fns

\* the interface types the loop writes, in the order it writes them
Detected(items) ==
    LET fns == functions(items)
        Test(interfaceType) == Satisfies(interfaceType, fns)
    IN SelectSeq(InterfaceTypes, Test)

\* address.toLowerCase() over the addresses a caller may pass
AddressInputs == {"a1", "A1", "a2"}
toLowerCase(address) == IF address = "A1" THEN "a1" ELSE address

\* variant: INSERT without the ON CONFLICT clause, on a table without the key
insertContractInterface_Plain(rows, address, interfaceType, now) ==
    rows \cup { [address |-> toLowerCase(address), interface_type |-> interfaceType,
                 detected_at |-> now] }

\* INSERT ... ON CONFLICT (address, interface_type) DO UPDATE SET detected_at
insertContractInterface(rows, address, interfaceType, now) ==
    { r \in rows : ~(r.address = toLowerCase(address)
                        /\ r.interface_type = interfaceType) }
        \cup { [address |-> toLowerCase(address), interface_type |-> interfaceType,
                detected_at |-> now] }

\* SELECT interface_type ... WHERE address = $1; SQL fixes no order of the rows
getContractInterfaces(rows, address) ==
    { r.interface_type : r \in { q \in rows : q.address = toLowerCase(address) } }

RECURSIVE InsertAll(_, _, _, _)
InsertAll(rows, address, types, now) ==
    IF types = <<>> THEN rows
    ELSE InsertAll(insertContractInterface(rows, address, Head(types), now),
                   address, Tail(types), now)

MaxTime == 2        \* values of new Date()
Times == 1..MaxTime

Min(a, b) == IF a <= b THEN a ELSE b

\* One call of detectAndStoreInterfaces(address, abi): the first k writes
\* succeed and the next one, if any, throws out of the loop.  The writes of
\* a call touch distinct rows, so the call is taken as one step.
DetectAndStoreInterfaces(address, now, k) ==
    LET matched == Detected(abi)
        done == SubSeq(matched, 1, Min(k, Len(matched)))
    IN /\ interfaces' = InsertAll(interfaces, address, done, now)
       /\ call' = [op |-> "detectAndStoreInterfaces", address |-> address,
                   written |-> { done[j] : j \in 1..Len(done) },
                   threw |-> k < Len(matched)]
       /\ UNCHANGED <<blocks, txs, abi, verifyVars, pipelineVars>>

\* ABIs: any set of the functions the detectors name, and events of the
\* same names
FunctionNames == UNION { interfaceDetectors[S] : S \in DOMAIN interfaceDetectors }
EventNames == {"ownerOf"}

AbiOf(F, E) == { [type |-> "function", name |-> f] : f \in F }
                   \cup { [type |-> "event", name |-> e] : e \in E }

Abis == { AbiOf(F, E) : F \in SUBSET FunctionNames, E \in SUBSET EventNames }

ClassifyInit ==
    /\ isIndexing = FALSE
    /\ lastProcessedBlock = 0
    /\ blocks = {}
    /\ txs = {}
    /\ listeners = 0
    /\ tasks = [t \in TaskIds |-> Idle]
    /\ head = 1
    /\ chain = [b \in BlockNumbers |-> 0]
    /\ receipts = {}
    /\ lastNotified = -1
    /\ failures = 0
    /\ restarts = 0
    /\ outcome = "none"
    /\ interfaces = {}
    /\ abi \in Abis
    /\ call = [op |-> "none"]
    /\ VerifyIdle

ClassifyNext ==
    \E address \in AddressInputs : \E now \in Times : \E k \in 0..Len(InterfaceTypes) :
        DetectAndStoreInterfaces(address, now, k)

ClassifySpec == ClassifyInit /\ [][ClassifyNext]_vars

\* function names of an ABI
FunctionsOf(items) == { f \in FunctionNames : [type |-> "function", name |-> f] \in items }

\* C18: a completed classification writes the tag of standard S iff the
\* function names of the ABI are a superset of the required set of S.
C18_ClassificationIffSuperset ==
    (call.op = "detectAndStoreInterfaces" /\ ~call.threw) =>
        \A S \in DOMAIN interfaceDetectors :
            S \in call.written <=> interfaceDetectors[S] \subseteq FunctionsOf(abi)

\* two standards returned at once
C18_Witness ==
    /\ call.op = "detectAndStoreInterfaces"
    /\ ~call.threw
    /\ call.written = {"ERC20", "ERC721"}


\* ---- DatabaseService: the other calls and their error handling ---------------
\* ORDER BY transaction_index ASC
RECURSIVE ByIndexAsc(_)
ByIndexAsc(rows) ==
    IF rows = {} THEN <<>>
    ELSE LET first == CHOOSE r \in rows :
                          \A q \in rows : r.transaction_index <= q.transaction_index
         IN <<first>> \o ByIndexAsc(rows \ {first})

getTransactionsByBlock(rows, n) == ByIndexAsc({ r \in rows : r.block_number = n })

\* variant: ORDER BY block_number DESC, transaction_index ASC
Newer_IndexAsc(r, q) ==
    \/ r.block_number > q.block_number
    \/ r.block_number = q.block_number /\ r.transaction_index <= q.transaction_index

Newer(r, q) ==
    \/ r.block_number > q.block_number
    \/ r.block_number = q.block_number /\ r.transaction_index >= q.transaction_index

\* ORDER BY block_number DESC, transaction_index DESC
RECURSIVE NewestFirst(_)
NewestFirst(rows) ==
    IF rows = {} THEN <<>>
    ELSE LET first == CHOOSE r \in rows : \A q \in rows : Newer(r, q)
         IN <<first>> \o NewestFirst(rows \ {first})

\* WHERE from_address = $1 OR to_address = $1 ... LIMIT $2 OFFSET $3
getTransactionsByAddress(rows, address, limit, offset) ==
    LET all == NewestFirst({ r \in rows : r.from_address = address
                                             \/ r.to_address = address })
    IN SubSeq(all, offset + 1, Min(offset + limit, Len(all)))

GetLatestBlockCall(ok) ==
    /\ call' = [op |-> "getLatestBlock", ok |-> ok, threw |-> FALSE,
                value |-> IF ok THEN getLatestBlock(blocks) ELSE -1]
    /\ UNCHANGED <<blocks, txs, interfaces, abi, verifyVars, pipelineVars>>

GetBlockCall(n, ok) ==
    /\ call' = [op |-> "getBlock", ok |-> ok, threw |-> FALSE,
                value |-> IF ok THEN getBlock(blocks, n) ELSE {}]
    /\ UNCHANGED <<blocks, txs, interfaces, abi, verifyVars, pipelineVars>>

GetTransactionsByBlockCall(n, ok) ==
    /\ call' = [op |-> "getTransactionsByBlock", ok |-> ok, threw |-> FALSE,
                value |-> IF ok THEN getTransactionsByBlock(txs, n) ELSE <<>>]
    /\ UNCHANGED <<blocks, txs, interfaces, abi, verifyVars, pipelineVars>>

GetTransactionsByAddressCall(address, limit, offset, ok) ==
    /\ call' = [op |-> "getTransactionsByAddress", ok |-> ok, threw |-> FALSE,
                address |-> address, limit |-> limit, offset |-> offset,
                value |-> IF ok
                          THEN getTransactionsByAddress(txs, address, limit, offset)
                          ELSE <<>>]
    /\ UNCHANGED <<blocks, txs, interfaces, abi, verifyVars, pipelineVars>>

GetTotalTransactionsCall(ok) ==
    /\ call' = [op |-> "getTotalTransactions", ok |-> ok, threw |-> FALSE,
                value |-> IF ok THEN getTotalTransactions(txs) ELSE 0]
    /\ UNCHANGED <<blocks, txs, interfaces, abi, verifyVars, pipelineVars>>

GetContractInterfacesCall(address, ok) ==
    /\ call' = [op |-> "getContractInterfaces", ok |-> ok, threw |-> FALSE,
                value |-> IF ok THEN getContractInterfaces(interfaces, address)
                          ELSE {}]
    /\ UNCHANGED <<blocks, txs, interfaces, abi, verifyVars, pipelineVars>>

\* variant: the catch block logs and returns
InsertContractInterfaceCall_Swallow(address, interfaceType, now, ok) ==
    /\ interfaces' = IF ok
                     THEN insertContractInterface(interfaces, address, interfaceType, now)
                     ELSE interfaces
    /\ call' = [op |-> "insertContractInterface", address |-> address,
                interface_type |-> interfaceType, ok |-> ok, threw |-> FALSE]
    /\ UNCHANGED <<blocks, txs, abi, verifyVars, pipelineVars>>

InsertContractInterfaceCall(address, interfaceType, now, ok) ==
    /\ interfaces' = IF ok
                     THEN insertContractInterface(interfaces, address, interfaceType, now)
                     ELSE interfaces
    /\ call' = [op |-> "insertContractInterface", address |-> address,
                interface_type |-> interfaceType, ok |-> ok, threw |-> ~ok]
    /\ UNCHANGED <<blocks, txs, abi, verifyVars, pipelineVars>>

\* a store the pipeline has written block 1 to, with no tag yet
StoreInit ==
    /\ isIndexing = FALSE
    /\ lastProcessedBlock = 0
    /\ chain \in Chains
    /\ blocks = { BlockRow(1) }
    /\ txs = { TxRow(1, 1) }
    /\ listeners = 0
    /\ tasks = [t \in TaskIds |-> Idle]
    /\ head = 1
    /\ receipts = {}
    /\ lastNotified = -1
    /\ failures = 0
    /\ restarts = 0
    /\ outcome = "none"
    /\ ApiIdle

\* every call with a query that resolves or rejects; tags are written for
\* one contract at one time
StoreNext ==
    \/ \E n \in BlockNumbers : \E ok \in BOOLEAN : InsertBlockCall(BlockRow(n), ok)
    \/ \E transaction \in TxValues : \E ok \in BOOLEAN :
           InsertTransactionCall(transaction, ok)
    \/ \E j \in 1..Len(InterfaceTypes) : \E ok \in BOOLEAN :
           InsertContractInterfaceCall("A1", InterfaceTypes[j], 1, ok)
    \/ \E ok \in BOOLEAN : GetLatestBlockCall(ok)
    \/ \E n \in BlockNumbers : \E ok \in BOOLEAN : GetBlockCall(n, ok)
    \/ \E n \in BlockNumbers : \E ok \in BOOLEAN : GetTransactionsByBlockCall(n, ok)
    \/ \E address \in Addresses : \E limit \in 1..2 : \E offset \in 0..1 :
           \E ok \in BOOLEAN : GetTransactionsByAddressCall(address, limit, offset, ok)
    \/ \E ok \in BOOLEAN : GetTotalTransactionsCall(ok)
    \/ \E address \in AddressInputs : \E ok \in BOOLEAN :
           GetContractInterfacesCall(address, ok)

StoreSpec == StoreInit /\ [][StoreNext]_vars

ReadOps == {"getLatestBlock", "getBlock", "getTransactionsByBlock",
            "getTransactionsByAddress", "getTotalTransactions",
            "getContractInterfaces"}

WriteOps == {"insertBlock", "insertTransaction", "insertContractInterface"}

\* what a caller takes for nothing found: null (-1 or no row), [] or 0
IsEmptyResult(op, value) ==
    CASE op = "getLatestBlock" -> value = -1
      [] op = "getBlock" -> value = {}
      [] op = "getTransactionsByBlock" -> value = <<>>
      [] op = "getTransactionsByAddress" -> value = <<>>
      [] op = "getTotalTransactions" -> value = 0
      [] op = "getContractInterfaces" -> value = {}

\* C19: a read whose query fails returns the empty result and does not
\* throw; a write whose query fails throws to its caller.
C19_ErrorPolicy ==
    /\ (call.op \in ReadOps /\ ~call.ok) =>
           ~call.threw /\ IsEmptyResult(call.op, call.value)
    /\ (call.op \in WriteOps /\ ~call.ok) => call.threw

\* a tag write has failed on a store that holds rows and tags
C19_Witness ==
    /\ call.op = "insertContractInterface"
    /\ ~call.ok
    /\ call.threw
    /\ interfaces # {}
    /\ Cardinality(blocks) > 1


\* ---- the contract_interfaces table under every call that touches it -------------
\* one tag stored; the ABI handed to the classifier covers ERC20 and ERC721
TagInit ==
    /\ isIndexing = FALSE
    /\ lastProcessedBlock = 0
    /\ blocks = {}
    /\ txs = {}
    /\ listeners = 0
    /\ tasks = [t \in TaskIds |-> Idle]
    /\ head = 1
    /\ chain = [b \in BlockNumbers |-> 0]
    /\ receipts = {}
    /\ lastNotified = -1
    /\ failures = 0
    /\ restarts = 0
    /\ outcome = "none"
    /\ interfaces = { [address |-> "a1", interface_type |-> "ERC20",
                       detected_at |-> 1] }
    /\ abi = AbiOf(interfaceDetectors.ERC20 \cup interfaceDetectors.ERC721, {})
    /\ call = [op |-> "none"]
    /\ VerifyIdle

TagNext ==
    \/ \E address \in AddressInputs : \E j \in 1..Len(InterfaceTypes) :
           \E now \in Times : \E ok \in BOOLEAN :
               InsertContractInterfaceCall(address, InterfaceTypes[j], now, ok)
    \/ \E address \in AddressInputs : \E now \in Times :
           \E k \in 0..Len(InterfaceTypes) : DetectAndStoreInterfaces(address, now, k)
    \/ \E address \in AddressInputs : \E ok \in BOOLEAN :
           GetContractInterfacesCall(address, ok)

TagSpec == TagInit /\ [][TagNext]_vars

TagKey(r) == <<r.address, r.interface_type>>
TagKeys(rows) == { TagKey(r) : r \in rows }

OneRowPerTag ==
    \A r, q \in interfaces : TagKey(r) = TagKey(q) => r = q

TagsOnlyGrow ==
    \A address \in AddressInputs :
        getContractInterfaces(interfaces, address)
            \subseteq getContractInterfaces(interfaces', address)

\* a write of a pair already stored leaves every other row and the set of
\* pairs as they were
RewriteTouchesTimestampOnly ==
    LET key == <<toLowerCase(call'.address), call'.interface_type>>
    IN (call'.op = "insertContractInterface" /\ key \in TagKeys(interfaces)) =>
           /\ TagKeys(interfaces') = TagKeys(interfaces)
           /\ \A r \in interfaces : TagKey(r) # key => r \in interfaces'

\* C20: at most one row per (address, interface); writing a stored pair again
\* changes only its detection time; no step removes a tag of any address.
C20_TagUniqueness ==
    /\ []OneRowPerTag
    /\ [][TagsOnlyGrow /\ RewriteTouchesTimestampOnly]_vars

\* the tag stored at the start has been written again, at a later time and
\* through an address in upper case, beside tags of another contract
C20_Witness ==
    /\ call.op = "insertContractInterface"
    /\ ~call.threw
    /\ call.address = "A1"
    /\ [address |-> "a1", interface_type |-> "ERC20", detected_at |-> 2] \in interfaces
    /\ getContractInterfaces(interfaces, "a1") = {"ERC20"}
    /\ getContractInterfaces(interfaces, "a2") # {}


\* ---- retry of failed passes ----------------------------------------------------
\* the pass of task t ends in this step with a transport or store error
PassThrows(t) ==
    /\ InFlight(t)
    /\ tasks'[t] = AfterThrow(t)
    /\ failures' = failures + 1
    /\ restarts' = restarts

\* after the step something is left that will attempt block n: a backfill
\* loop below n, or an announcement of n still to come
WillRetry(n) ==
    \/ \E u \in LoopIds : tasks'[u].pc # "idle" /\ lastProcessedBlock' < n
    \/ lastNotified' < n

\* C21: when a pass for block n >= 1 fails while the pipeline is running, the
\* pipeline stays running and block n is attempted again.
C21_FailedPassRetried ==
    [][\A t \in TaskIds : (isIndexing /\ PassThrows(t) /\ tasks[t].n >= 1) =>
           isIndexing' /\ WillRetry(tasks[t].n)]_vars


\* ---- DatabaseService: contract_verifications and contract_sources ---------------
\* INSERT ... ON CONFLICT (address) DO UPDATE, the address in lower case
insertContractVerification(rows, verification) ==
    { r \in rows : r.address # toLowerCase(verification.address) }
        \cup { [verification EXCEPT !.address = toLowerCase(@)] }

\* UPDATE contract_verifications SET ... WHERE address = $5
updateVerificationStatus(rows, address, status) ==
    { IF r.address = toLowerCase(address)
      THEN [r EXCEPT !.verification_status = status,
                     !.is_verified = (status = "success")]
      ELSE r : r \in rows }

\* INSERT ... ON CONFLICT (address, filename) DO UPDATE
insertContractSource(rows, source) ==
    { r \in rows : ~(r.address = toLowerCase(source.address)
                        /\ r.filename = source.filename) }
        \cup { [source EXCEPT !.address = toLowerCase(@)] }

\* SELECT * FROM contract_verifications WHERE address = $1; rows[0] || null
getContractVerification(rows, address) ==
    { r \in rows : r.address = toLowerCase(address) }

\* ---- POST /verify ------------------------------------------------------------------
\* ethers.utils.isAddress over the strings a request may carry
isAddress(address) == address \in AddressInputs

\* the record the route builds: status pending, not verified
PendingRecord(address) ==
    [address |-> address, verification_status |-> "pending", is_verified |-> FALSE]

\* name of a source file of a request, by the number of files still to store
Filename(k) == IF k = 1 THEN "main.sol" ELSE "lib.sol"

\* the slot is free again; the response sent stays on record
Done(rq) == [IdleRequest EXCEPT !.res = rq.res]

\* verifyContract(...) runs up to await provider.getCode(...), then the
\* route answers with status pending
StartVerify(rq) ==
    [rq EXCEPT !.pc = "getCode", !.left = 0, !.res = "pending"]

\* the request arrives: 400 for a bad address, else the first store write
Submit(v, address, files) ==
    /\ requests[v].pc = "idle"
    /\ requests' = [requests EXCEPT ![v] =
           IF isAddress(address)
           THEN [IdleRequest EXCEPT !.pc = "insertContractVerification",
                                    !.address = address, !.left = files]
           ELSE [IdleRequest EXCEPT !.res = "400"]]
    /\ UNCHANGED <<blocks, txs, interfaces, abi, call, verifications, sources,
                   pipelineVars>>

\* insertContractVerification(verification) resolves or rejects; a rejection
\* is caught by the route, which answers 500
InsertVerificationDone(v, ok) ==
    /\ requests[v].pc = "insertContractVerification"
    /\ verifications' =
           IF ok THEN insertContractVerification(verifications,
                                                 PendingRecord(requests[v].address))
           ELSE verifications
    /\ requests' = [requests EXCEPT ![v] =
           IF ~ok THEN [IdleRequest EXCEPT !.res = "500"]
           ELSE IF requests[v].left > 0
                THEN [requests[v] EXCEPT !.pc = "insertContractSource"]
                ELSE StartVerify(requests[v])]
    /\ UNCHANGED <<blocks, txs, interfaces, abi, call, sources, pipelineVars>>

\* one insertContractSource of the loop over req.body.sources
InsertSourceDone(v, ok) ==
    /\ requests[v].pc = "insertContractSource"
    /\ sources' =
           IF ok THEN insertContractSource(sources,
                          [address |-> requests[v].address,
                           filename |-> Filename(requests[v].left)])
           ELSE sources
    /\ requests' = [requests EXCEPT ![v] =
           IF ~ok THEN [IdleRequest EXCEPT !.res = "500"]
           ELSE IF requests[v].left > 1
                THEN [requests[v] EXCEPT !.left = @ - 1]
                ELSE StartVerify(requests[v])]
    /\ UNCHANGED <<blocks, txs, interfaces, abi, call, verifications,
                   pipelineVars>>


\* ---- contract-verifier: verifyContract ---------------------------------------------
\* variant: compileContract returns a result
CompileThrows_Implemented == FALSE

\* compileContract: throw new Error('Compilation not implemented')
CompileThrows == TRUE

\* the catch block of verifyContract: await updateVerificationStatus(failure)
InCatch(rq) ==
    [rq EXCEPT !.pc = "updateVerificationStatus", !.status = "failure",
               !.inCatch = TRUE]

\* One await of verifyContract resolves (ok) or rejects (~ok); matches is the
\* result of compareBytecode and now the value of new Date().
VerifyContractStep(v, ok, matches, now) ==
    LET rq == requests[v] IN
    /\ rq.pc \in {"getCode", "updateVerificationStatus", "storeAbi",
                  "detectAndStoreInterfaces"}
    /\ CASE rq.pc = "getCode" ->
              \* provider.getCode, then compileContract and compareBytecode
              /\ requests' = [requests EXCEPT ![v] =
                     IF ok /\ ~CompileThrows
                     THEN [rq EXCEPT !.pc = "updateVerificationStatus",
                                     !.status = IF matches THEN "success"
                                                ELSE "failure"]
                     ELSE InCatch(rq)]
              /\ UNCHANGED <<verifications, interfaces>>
         [] rq.pc = "updateVerificationStatus" ->
              /\ verifications' =
                     IF ok THEN updateVerificationStatus(verifications, rq.address,
                                                         rq.status)
                     ELSE verifications
              /\ requests' = [requests EXCEPT ![v] =
                     IF ok
                     THEN IF rq.status = "success"
                          THEN [rq EXCEPT !.pc = "storeAbi"]
                          ELSE Done(rq)
                     ELSE IF rq.inCatch THEN Done(rq) ELSE InCatch(rq)]
              /\ UNCHANGED interfaces
         [] rq.pc = "storeAbi" ->
              \* insertContractVerification({...verification, success})
              /\ verifications' =
                     IF ok
                     THEN insertContractVerification(verifications,
                              [address |-> rq.address,
                               verification_status |-> "success",
                               is_verified |-> TRUE])
                     ELSE verifications
              /\ requests' = [requests EXCEPT ![v] =
                     IF ok THEN [rq EXCEPT !.pc = "detectAndStoreInterfaces"]
                     ELSE InCatch(rq)]
              /\ UNCHANGED interfaces
         [] rq.pc = "detectAndStoreInterfaces" ->
              /\ interfaces' =
                     IF ok THEN InsertAll(interfaces, rq.address, Detected(abi), now)
                     ELSE interfaces
              /\ requests' = [requests EXCEPT ![v] =
                     IF ok THEN Done(rq) ELSE InCatch(rq)]
              /\ UNCHANGED verifications
    /\ UNCHANGED <<blocks, txs, abi, call, sources, pipelineVars>>

\* ---- GET routes of the API ---------------------------------------------------------
\* variant: the route resets the watermark it reports
Health_Resets ==
    /\ call' = [op |-> "health", lastBlock |-> lastProcessedBlock,
                isIndexing |-> isIndexing]
    /\ lastProcessedBlock' = 0
    /\ UNCHANGED <<blocks, txs, interfaces, abi, verifyVars, isIndexing, listeners,
                   tasks, head, chain, receipts, lastNotified, failures, restarts,
                   outcome>>

\* GET /health: the two getters of IndexerService, no store call
Health ==
    /\ call' = [op |-> "health", lastBlock |-> lastProcessedBlock,
                isIndexing |-> isIndexing]
    /\ UNCHANGED <<blocks, txs, interfaces, abi, verifyVars, pipelineVars>>

GetContractVerificationCall(address, ok) ==
    /\ call' = [op |-> "getContractVerification", ok |-> ok, threw |-> FALSE,
                value |-> IF ok THEN getContractVerification(verifications, address)
                          ELSE {}]
    /\ UNCHANGED <<blocks, txs, interfaces, abi, verifyVars, pipelineVars>>


\* ---- the service: pipeline, API routes and verification side by side ---------------
\* empty store, head at MaxHead, every receipt there, no chain failure left
ServiceInit ==
    /\ isIndexing = FALSE
    /\ lastProcessedBlock = 0
    /\ blocks = {}
    /\ txs = {}
    /\ listeners = 0
    /\ tasks = [t \in TaskIds |-> Idle]
    /\ head = MaxHead
    /\ chain = [b \in BlockNumbers |-> b % 2]
    /\ receipts = UNION { { TxHash(b, i) : i \in 1..chain[b] } : b \in BlockNumbers }
    /\ lastNotified = -1
    /\ failures = MaxFailures
    /\ restarts = 0
    /\ outcome = "none"
    /\ interfaces = {}
    /\ abi = AbiOf(interfaceDetectors.ERC20, {})
    /\ call = [op |-> "none"]
    /\ VerifyIdle

\* one start() of the pipeline; requests for one contract or with a bad
\* address; each GET route with one argument and a query that resolves
ServiceNext ==
    \/ \E t \in TaskIds : GetBlockOk(t)
    \/ \E t \in TaskIds : InsertBlockOk(t)
    \/ \E t \in TaskIds : GetReceiptOk(t)
    \/ \E t \in TaskIds : InsertTxOk(t)
    \/ Start(1) /\ outcome = "none"
    \/ \E t \in LoopIds : IsConnectedTrue(t)
    \/ \E t \in LoopIds : StartResume(t)
    \/ \E t \in LoopIds : GetHeadOk(t)
    \/ \E b \in BlockNumbers : Notify(b)
    \/ \E v \in VerifyIds : \E address \in {"A1", "zz"} : \E files \in 0..1 :
           Submit(v, address, files)
    \/ \E v \in VerifyIds : \E ok \in BOOLEAN : InsertVerificationDone(v, ok)
    \/ \E v \in VerifyIds : \E ok \in BOOLEAN : InsertSourceDone(v, ok)
    \/ \E v \in VerifyIds : \E ok \in BOOLEAN : \E matches \in BOOLEAN :
           VerifyContractStep(v, ok, matches, 1)
    \/ Health
    \/ GetLatestBlockCall(TRUE)
    \/ GetBlockCall(1, TRUE)
    \/ GetTransactionsByBlockCall(1, TRUE)
    \/ GetTransactionsByAddressCall("a2", 2, 0, TRUE)
    \/ GetTotalTransactionsCall(TRUE)
    \/ GetContractInterfacesCall("A1", TRUE)
    \/ GetContractVerificationCall("A1", TRUE)

ServiceSpec == ServiceInit /\ [][ServiceNext]_vars

\* a step of an API route or of the verification path
ApiStep ==
    \/ call' # call
    \/ requests' # requests
    \/ verifications' # verifications
    \/ sources' # sources
    \/ interfaces' # interfaces

\* C22: no step of a read route or of the verification path (submit,
\* verifyContract, status update, interface tagging) changes a Block row, a
\* Transaction row or the watermark.
C22_SingleWriter ==
    [][ApiStep => UNCHANGED <<blocks, txs, lastProcessedBlock>>]_vars

\* the pipeline has written rows, a verification has run to its end and a
\* read route has answered
C22_Witness ==
    /\ blocks # {}
    /\ txs # {}
    /\ lastProcessedBlock = MaxHead
    /\ \E r \in verifications : r.verification_status = "failure"
    /\ call.op = "getTransactionsByAddress"
    /\ call.ok
    /\ call.value # <<>>


\* no POST /verify handler and no verifyContract call is in flight
NoRequestInFlight == \A v \in VerifyIds : requests[v].pc = "idle"

\* C23: no verification record is ever successful and no interface tag is
\* written by the verification path; once no request is in flight, every
\* record written as pending has reached the status failure.
C23_PendingReachesFailure ==
    /\ \A r \in verifications : r.verification_status # "success"
    /\ interfaces = {}
    /\ NoRequestInFlight =>
           \A r \in verifications : r.verification_status = "failure"


\* ---- getTransactionsByAddress over stores with several rows per block ------------
QueryTxValues ==
    { [hash |-> TxHash(b, i), block_number |-> b, from_address |-> p[1],
       to_address |-> p[2], transaction_index |-> i] :
          b \in 1..MaxHead, i \in 1..2,
          p \in {<<"a1", "a2">>, <<"a2", "a1">>, <<"a2", "a2">>} }

QueryNext ==
    \/ \E transaction \in QueryTxValues : \E ok \in BOOLEAN :
           InsertTransactionCall(transaction, ok)
    \/ \E address \in AddressInputs : \E limit \in 1..2 : \E offset \in 0..2 :
           \E ok \in BOOLEAN : GetTransactionsByAddressCall(address, limit, offset, ok)

QuerySpec == UpsertInit /\ [][QueryNext]_vars

\* r comes strictly before q in (block number desc, position index desc)
Before(r, q) ==
    \/ r.block_number > q.block_number
    \/ r.block_number = q.block_number /\ r.transaction_index > q.transaction_index

\* rows whose sender or recipient is the address
Involving(address) ==
    { r \in txs : r.from_address = address \/ r.to_address = address }

\* page is the part of rows, in that order, after the first offset rows and
\* at most limit long
IsPage(page, rows, limit, offset) ==
    LET rest == IF Cardinality(rows) > offset THEN Cardinality(rows) - offset ELSE 0
    IN /\ Len(page) = Min(limit, rest)
       /\ \A j \in 1..Len(page) : page[j] \in rows
       /\ \A j, k \in 1..Len(page) : j < k =>
              page[j] # page[k] /\ ~Before(page[k], page[j])
       /\ \A j \in 1..Len(page) :
              /\ Cardinality({ r \in rows : Before(r, page[j]) }) <= offset + j - 1
              /\ Cardinality({ r \in rows : ~Before(page[j], r) }) >= offset + j

\* C24: getTransactionsByAddress returns the rows whose sender or recipient
\* is the address, newest first by (block number, position index), without
\* the first offset of them and at most limit of them.
C24_AddressPage ==
    (call.op = "getTransactionsByAddress" /\ call.ok) =>
        IsPage(call.value, Involving(call.address), call.limit, call.offset)

\* a second page of two rows of one block, the higher position first
C24_Witness ==
    /\ call.op = "getTransactionsByAddress"
    /\ call.ok
    /\ call.offset = 1
    /\ Len(call.value) = 2
    /\ call.value[1].block_number = call.value[2].block_number
    /\ call.value[1].transaction_index > call.value[2].transaction_index
    /\ Cardinality(Involving(call.address)) = 3
    /\ Involving(call.address) # txs


\* ---- backfill retry ----------------------------------------------------------------
\* the head query of loop t resolves after a pass for block n has failed
HeadQueryResolves(t, n) ==
    /\ tasks[t].pc = "getLatestBlockNumber"
    /\ tasks[t].n = n
    /\ tasks'[t].pc \notin {"getLatestBlockNumber", "sleep"}
    /\ restarts' = restarts

\* C25: a failed backfill pass leaves the watermark as it is and the loop
\* asleep, and, block n >= 1 of the failed pass being still absent from the
\* store, the loop's next step after the sleep is a pass for the same n.
C25_RetriesSameBlock ==
    [][\A t \in LoopIds :
           /\ PassThrows(t) =>
                  lastProcessedBlock' = lastProcessedBlock /\ tasks'[t].pc = "sleep"
           /\ \A n \in 1..MaxHead :
                  HeadQueryResolves(t, n) /\ ~HasBlock(n) =>
                      BeginsPass(t) /\ tasks'[t].n = n]_vars


\* ---- write ordering inside processBlock ------------------------------------------
\* a step of the pass of task t
PassStep(t) == InFlight(t) /\ tasks'[t] # tasks[t] /\ restarts' = restarts

\* the hashes whose receipt lookup the pass of t has got through, the one at
\* hand included
Visited(t) == { TxHash(tasks[t].n, i) : i \in 1..tasks[t].i }

\* the pass of t returns: this.lastProcessedBlock = blockNumber has run
PassReturns(t) ==
    /\ PassStep(t) /\ tasks'[t] = AfterPass(t)
    /\ tasks[t].pc # "getBlock" /\ failures' = failures

\* C26: within a pass for block n a Transaction row of n is written only once
\* the Block row of n is in the store; the pass moves the watermark in its
\* last step only, to n, with the Block row and the row of every transaction
\* it did not skip in the store; a pass that throws leaves the watermark as
\* it is, and so does every other step short of the last.
C26_WriteOrdering ==
    [][\A t \in TaskIds : PassStep(t) =>
           /\ txs' # txs => HasBlock(tasks[t].n)
           /\ PassReturns(t) =>
                  /\ lastProcessedBlock' = tasks[t].n
                  /\ \E r \in blocks' : r.number = tasks[t].n
                  /\ tasks[t].i = chain[tasks[t].n]
                  /\ ~tasks[t].skipped /\ tasks[t].pc = "insertTx" =>
                         \A h \in Visited(t) : \E r \in txs' : r.hash = h
           /\ ~PassReturns(t) => lastProcessedBlock' = lastProcessedBlock]_vars

\* the backfill pass for block 2 wrote the Block row and the first of two
\* Transaction rows, threw on the second, and the watermark is still at 1
C26_Witness ==
    \E t \in LoopIds :
        /\ tasks[t].pc = "sleep" /\ tasks[t].n = 2
        /\ HasBlock(2) /\ HasTx(TxHash(2, 1)) /\ ~HasTx(TxHash(2, 2))
        /\ lastProcessedBlock = 1


\* ---- end of the backfill ---------------------------------------------------------
LoopPcs == ProcessingPcs \cup {"getLatestBlockNumber", "sleep"}

\* the loop of task t ends
LoopExits(t) ==
    tasks[t].pc \in LoopPcs /\ tasks'[t].pc = "idle" /\ restarts' = restarts

\* the head query of loop t resolves with the number of the head
HeadObserved(t) ==
    /\ tasks[t].pc = "getLatestBlockNumber"
    /\ tasks'[t].pc # "getLatestBlockNumber"
    /\ failures' = failures /\ restarts' = restarts

\* C27: while the pipeline is running the backfill loop ends exactly in the
\* step in which it observes a head with watermark + 1 > head, so never with
\* a block at or below that head above the watermark, and in the state it
\* leaves the pipeline is running and a 'block' listener is registered.
C27_ExitWhenCaughtUp ==
    [][\A t \in LoopIds :
           /\ isIndexing /\ LoopExits(t) =>
                  /\ HeadObserved(t)
                  /\ lastProcessedBlock + 1 > head
                  /\ ~\E b \in 1..head : b > lastProcessedBlock
                  /\ isIndexing' /\ listeners' >= 1
           /\ HeadObserved(t) /\ lastProcessedBlock + 1 > head =>
                  LoopExits(t)]_vars

\* caught up with a head of 2 after two passes: the loop has ended, the
\* pipeline runs and listens
C27_Witness ==
    /\ outcome = "start:returned"
    /\ \A t \in LoopIds : tasks[t].pc = "idle"
    /\ isIndexing /\ listeners >= 1
    /\ lastProcessedBlock = 2 /\ head = 2 /\ lastNotified = 0
    /\ HasBlock(1) /\ HasBlock(2)


\* ---- a node that does not have the block ----------------------------------------
\* the endpoint answers from a node that trails the one that answered before
FallBehind ==
    /\ head > 0
    /\ head' = head - 1
    /\ UNCHANGED <<isIndexing, lastProcessedBlock, blocks, txs, listeners, tasks,
                   chain, receipts, lastNotified, failures, restarts, outcome>>
    /\ UNCHANGED apiVars

\* the backfill and the live handlers in front of such an endpoint; the only
\* failure is the fetch of a block past the head
LagNext ==
    \/ \E t \in TaskIds : GetBlockOk(t)
    \/ \E t \in TaskIds : GetBlockFail(t)
    \/ \E t \in TaskIds : InsertBlockOk(t)
    \/ \E t \in TaskIds : GetReceiptOk(t)
    \/ \E t \in TaskIds : InsertTxOk(t)
    \/ Start(1) /\ outcome = "none"
    \/ \E t \in LoopIds : IsConnectedTrue(t)
    \/ \E t \in LoopIds : StartResume(t)
    \/ \E t \in LoopIds : GetHeadOk(t)
    \/ \E t \in LoopIds : SleepDone(t)
    \/ \E b \in BlockNumbers : Notify(b)
    \/ FallBehind

LagSpec == BackfillInit /\ [][LagNext]_vars

\* the block fetch of the pass of t resolves for a block past the head
PastHeadFetch(t) ==
    tasks[t].pc = "getBlock" /\ tasks[t].n > head /\ tasks'[t] # tasks[t]

\* C28: a pass whose block the node does not have ends in its first step
\* without a Block or Transaction row written and with the watermark as it
\* was; the backfill loop then sleeps, and it begins a pass only out of a head
\* query, for a block at or below the head that query read.
C28_PastHeadNotCaughtUp ==
    [][\A t \in TaskIds :
           /\ PastHeadFetch(t) =>
                  /\ blocks' = blocks /\ txs' = txs
                  /\ lastProcessedBlock' = lastProcessedBlock
                  /\ tasks'[t].pc = IF IsLoop(t) THEN "sleep" ELSE "idle"
           /\ IsLoop(t) /\ tasks[t].pc = "sleep" /\ tasks'[t] # tasks[t] =>
                  tasks'[t].pc \in {"getLatestBlockNumber", "idle"}
           /\ IsLoop(t) /\ BeginsPass(t) =>
                  HeadObserved(t) /\ tasks'[t].n <= head]_vars

\* the backfill loop asked for block 2 of a node that has block 1 only: no
\* row of block 2, the watermark at 1, the loop asleep
C28_Witness ==
    \E t \in LoopIds :
        /\ tasks[t].pc = "sleep" /\ tasks[t].n = 2
        /\ head = 1 /\ lastProcessedBlock = 1
        /\ HasBlock(1) /\ ~HasBlock(2)
        /\ ~\E r \in txs : r.block_number = 2


\* ---- receipts inside processBlock -------------------------------------------------
\* the receipt lookup of the pass of t resolves
ReceiptStep(t) ==
    tasks[t].pc = "getReceipt" /\ tasks'[t] # tasks[t] /\ restarts' = restarts

\* C29: a receipt lookup that finds no receipt writes no row and throws
\* nothing, and the pass goes on to the next transaction of the block, or
\* returns when that was the last; a lookup that fails in transport ends the
\* pass with the error, so that the pass writes no further row of the block.
C29_AbsentSkipsFailureAborts ==
    [][\A t \in TaskIds : ReceiptStep(t) =>
           /\ (TxHash(tasks[t].n, tasks[t].i) \notin receipts /\ failures' = failures) =>
                  /\ txs' = txs
                  /\ IF tasks[t].i < chain[tasks[t].n]
                     THEN /\ tasks'[t].pc = "getReceipt"
                          /\ tasks'[t].n = tasks[t].n
                          /\ tasks'[t].i = tasks[t].i + 1
                     ELSE /\ tasks'[t] = AfterPass(t)
                          /\ lastProcessedBlock' = tasks[t].n
           /\ failures' = failures + 1 =>
                  /\ txs' = txs /\ lastProcessedBlock' = lastProcessedBlock
                  /\ tasks'[t] = AfterThrow(t)
                  /\ tasks'[t].pc \notin ProcessingPcs]_vars

\* a pass for block 2 met no receipt for the first transaction, went on and
\* wrote the second
C29_Witness ==
    /\ TxHash(2, 1) \notin receipts
    /\ HasBlock(2) /\ HasTx(TxHash(2, 2)) /\ ~HasTx(TxHash(2, 1))
    /\ lastProcessedBlock = 2


\* ---- the watermark and the store ---------------------------------------------------
\* C30: with the pipeline started, the store not empty and no pass in flight,
\* lastProcessedBlock equals the number getLatestBlock reads from the store.
C30_WatermarkMatchesStore ==
    (isIndexing /\ Quiet /\ blocks # {}) =>
        lastProcessedBlock = getLatestBlock(blocks)


\* ---- start() and stop() called again and again --------------------------------------
\* empty store, any head, every receipt there, one failure to inject
CallsInit ==
    /\ isIndexing = FALSE
    /\ lastProcessedBlock = 0
    /\ blocks = {}
    /\ txs = {}
    /\ listeners = 0
    /\ tasks = [t \in TaskIds |-> Idle]
    /\ head \in BlockNumbers
    /\ chain \in BackfillChains
    /\ receipts = UNION { { TxHash(b, i) : i \in 1..chain[b] } : b \in BlockNumbers }
    /\ lastNotified = -1
    /\ failures = 0
    /\ restarts = 0
    /\ outcome = "none"
    /\ ApiIdle

\* start() in a free slot of S, stop() at any time, the backfill loops of the
\* calls that got through; no block is announced
CallsNext(S) ==
    \/ \E t \in S : StartAgain(t)
    \/ \E t \in S : IsConnectedTrue(t)
    \/ \E t \in S : StartResume(t)
    \/ \E t \in S : GetHeadOk(t)
    \/ \E t \in S : GetHeadFail(t)
    \/ \E t \in S : SleepDone(t)
    \/ \E t \in S : GetBlockOk(t)
    \/ \E t \in S : InsertBlockOk(t)
    \/ \E t \in S : GetReceiptOk(t)
    \/ \E t \in S : InsertTxOk(t)
    \/ Stop

\* calls one after the other: start() is called again only once the call
\* before it has returned
SequenceNext == CallsNext(LoopIds)

SequenceSpec == CallsInit /\ [][SequenceNext]_vars

\* calls that may overlap: start() is called while an earlier call is still
\* in progress
OverlapNext == CallsNext(StartIds)

OverlapSpec == CallsInit /\ [][OverlapNext]_vars

\* C31: with start() and stop() called one after the other, at most one
\* 'block' listener is registered with the provider at any time, so that an
\* announced block makes at most one handleNewBlock call.
C31_SingleListener == listeners <= 1


\* the start() calls whose backfill loop has begun and not ended
ActiveLoops == { t \in StartIds : tasks[t].pc \in LoopPcs }

\* C32: however start() and stop() calls interleave, at most one backfill
\* loop is active at any time.
C32_SingleLoop == Cardinality(ActiveLoops) <= 1


\* ---- resuming from the store --------------------------------------------------------
\* the store read of the start() call in slot t resolves and the call goes on
\* to the backfill loop
ResumesFromStore(t) ==
    /\ tasks[t].pc = "getLatestBlock"
    /\ tasks'[t].pc # "getLatestBlock"
    /\ restarts' = restarts

\* C33: when the store holds blocks up to n >= 1, start() sets the watermark
\* to n, whether its store read succeeds or fails, so that backfill begins
\* at n + 1 and processes no block at or below n again.
C33_ResumesFromStore ==
    [][\A t \in LoopIds :
           (ResumesFromStore(t) /\ getLatestBlock(blocks) >= 1) =>
               lastProcessedBlock' = getLatestBlock(blocks)]_vars


\* ---- the store: rows of transactions and their block ------------------------------
\* C34: every stored Transaction row has a stored Block row with the number
\* the transaction carries as block_number.
C34_TransactionsHaveBlock ==
    \A r \in txs : HasBlock(r.block_number)

\* the backfill pass for block 2, which has two transactions with receipts,
\* failed before its Block row was stored: rows of block 1 are in the store,
\* of block 2 neither the Block row nor a Transaction row
C34_Witness ==
    \E t \in LoopIds :
        /\ tasks[t].pc = "sleep" /\ tasks[t].n = 2
        /\ chain[2] = 2 /\ TxsOf(2) \subseteq receipts
        /\ txs # {} /\ ~HasBlock(2)
        /\ ~\E r \in txs : r.block_number = 2


\* ---- start() returns ---------------------------------------------------------------
\* a started pipeline that may be stopped, in front of a head that stays
TerminateNext == StableNext \/ Stop

\* the await the loop of slot t is at resolves, with a value or an error, and
\* the timer of its backoff fires
Resolves(t) ==
    ProcessBlockStep(t) \/ GetHeadOk(t) \/ GetHeadFail(t) \/ SleepDone(t)

TerminateSpec ==
    /\ StableInit
    /\ [][TerminateNext]_vars
    /\ \A t \in LoopIds : WF_vars(Resolves(t))

LoopActive(t) == tasks[t].pc \in LoopPcs

\* C35: once stop() has cleared the flag while the backfill loop is active,
\* or the watermark has reached the head, the loop ends and start() returns;
\* and start() returns with the pipeline running only when the watermark is
\* at the head.
C35_StartTerminates ==
    /\ [][\A t \in LoopIds :
              (LoopExits(t) /\ isIndexing) => lastProcessedBlock >= head]_vars
    /\ \A t \in LoopIds :
           (LoopActive(t) /\ (~isIndexing \/ lastProcessedBlock >= head))
               ~> ~LoopActive(t)

\* start() has returned because stop() was called while backfill was behind
C35_Witness ==
    /\ outcome = "start:returned"
    /\ \A t \in LoopIds : tasks[t].pc = "idle"
    /\ ~isIndexing
    /\ lastProcessedBlock < head

====
